---- MODULE Spec2Model ----
(***************************************************************************)
(* Model of the CircuitSimulator component (src/app/page.tsx): the React   *)
(* state (gates, wires, selectedGate, connectingFrom, dragOffset), its     *)
(* event handlers, the evaluator calculateGateOutput and the effect that   *)
(* re-runs updateCircuit when its dependency list changes.                 *)
(*                                                                         *)
(* A click or a press of the pointer is a discrete event: the state       *)
(* updates of its handler are rendered and committed, and the effect runs, *)
(* before the handler returns.  Two kinds of update of `gates` are not     *)
(* rendered by the event that queues them: the one of a pointer move (a    *)
(* continuous event) and the one updateCircuit queues from the effect.     *)
(* They are rendered by a later task of the scheduler, and a handler that  *)
(* runs before that task reads the gates committed so far.  The effect of  *)
(* a render made by a task (the first render is one) runs in a later task, *)
(* or at the start of the next render if that comes first.                 *)
(***************************************************************************)
EXTENDS Integers, Sequences, FiniteSets, TLC

VARIABLES
    gates,           \* useState<Gate[]>
    wires,           \* useState<Wire[]>
    selectedGate,    \* useState<string | null>
    connectingFrom,  \* useState<{ gateId: string } | null>
    dragOffset,      \* useState({ x, y })
    now,             \* the reading of Date.now()
    crashed,         \* an evaluation did not return (call stack overflow)
    last,            \* the last handler that ran, and its outcome
    effectRuns,      \* how many times the effect ran since the last event
    queued,          \* <<>>, or <<gs>>: updates of `gates` are queued and not
                     \* yet rendered, and rendering them gives the gates gs
    effectDue,       \* the effect of the last render is yet to run
    script           \* position in the scripted scenario (0 when not scripted)

vars == <<gates, wires, selectedGate, connectingFrom, dragOffset,
          now, crashed, last, effectRuns, queued, effectDue, script>>

(* ---------------------------- bounds ----------------------------------- *)

\* Largest number of gates on the canvas.
MaxGates == 2
\* Largest reading of the millisecond clock Date.now().
MaxClock == 3
\* Largest number of wires.
MaxWires == 2
\* Number of sample values of Math.random() used for a new gate's x.
NumSpots == 2
\* The same two bounds for the scripted scenario, which needs three gates with
\* distinct ids that do not overlap on the canvas.
ScenarioClock == 3
ScenarioSpots == 3
\* Cap on the number of effect runs counted after one event.
MaxEffectRuns == 3

(* ------------------------- program constants --------------------------- *)

GateTypes == {"AND", "OR", "NOT", "INPUT", "OUTPUT"}

\* JavaScript null / undefined.
null == <<>>

\* addGate: x = 100 + Math.random() * 200, y likewise.
BaseX == 100
BaseY == 100
\* Sample values of Math.random() * 200, which ranges over [0, 200): gates
\* placed at different samples do not overlap.
RandomSamples == <<0, 80, 160>>
Offsets(n) == {RandomSamples[k] : k \in 1..(IF n < Len(RandomSamples) THEN n ELSE Len(RandomSamples))}
RandomOffsets == Offsets(NumSpots)
\* Geometry of the hit test in handleCanvasMouseDown.
BoxW == 60
BoxH == 40
CircleC == 20
CircleR == 15

\* `gate-${Date.now()}` and `wire-${Date.now()}`
GateId(t) == <<"gate", t>>
WireId(t) == <<"wire", t>>

\* Canvas points the pointer is pressed on: the centre of the circle of a
\* gate placed at each sampled position, and one point off every gate.
PointsAt(offsets) == {[x |-> BaseX + o + CircleC, y |-> BaseY + CircleC] : o \in offsets}
GatePoints == PointsAt(RandomOffsets)
ClickPoints == GatePoints \cup {[x |-> 0, y |-> 0]}

(* ----------------------------- helpers --------------------------------- *)

Min(S) == CHOOSE m \in S : \A n \in S : m <= n

\* Array.prototype.findIndex, 1-based; 0 when no element satisfies P.
FindIdx(seq, P(_)) ==
    LET I == {i \in 1..Len(seq) : P(seq[i])}
    IN  IF I = {} THEN 0 ELSE Min(I)

\* Array.prototype.indexOf (0-based, -1 when absent)
IndexOf(seq, v) == FindIdx(seq, LAMBDA e : e = v) - 1

\* String(b) for a boolean b
BoolStr(b) == IF b THEN "true" ELSE "false"

(* ---------------------------- evaluator -------------------------------- *)

\* Variant: the slot's own entry is not consulted, the wire always is.
FalsyNever(v) == FALSE

\* `!inputGateId` (line 50): null is falsy, a gate id string is not.
Falsy(v) == v = null

\* Variant: NOT passes its slot through.
GateFunctionNotPassThrough(type, inputValues) ==
    CASE type = "AND"    -> Len(inputValues) = 2 /\ inputValues[1] /\ inputValues[2]
      [] type = "OR"     -> Len(inputValues) = 2 /\ (inputValues[1] \/ inputValues[2])
      [] type = "NOT"    -> inputValues[1]
      [] type = "OUTPUT" -> inputValues[1] \/ FALSE
      [] OTHER           -> FALSE

\* The switch of calculateGateOutput over the resolved slot values.
GateFunction(type, inputValues) ==
    CASE type = "AND"    -> Len(inputValues) = 2 /\ inputValues[1] /\ inputValues[2]
      [] type = "OR"     -> Len(inputValues) = 2 /\ (inputValues[1] \/ inputValues[2])
      [] type = "NOT"    -> ~inputValues[1]
      [] type = "OUTPUT" -> inputValues[1] \/ FALSE
      [] OTHER           -> FALSE

\* calculateGateOutput(gate) in a render whose state is gs, ws.  The result
\* is [done, val]: done is FALSE when the recursion does not return (it
\* nests deeper than any chain of distinct gates, so it revisits a gate and
\* recurses until the call stack overflows); val is the returned boolean.
RECURSIVE Calc(_, _, _, _)
SlotValue(gate, idx, gs, ws, fuel) ==
    IF Falsy(gate.inputs[idx + 1]) THEN [done |-> TRUE, val |-> FALSE]
    ELSE LET w == FindIdx(ws, LAMBDA x : x.to.gateId = gate.id /\ x.to.inputIndex = idx)
         IN  IF w = 0 THEN [done |-> TRUE, val |-> FALSE]
             ELSE LET s == FindIdx(gs, LAMBDA g : g.id = ws[w].from.gateId)
                  IN  IF s = 0 THEN [done |-> TRUE, val |-> FALSE]
                      ELSE Calc(gs[s], gs, ws, fuel - 1)

Calc(gate, gs, ws, fuel) ==
    IF fuel = 0 THEN [done |-> FALSE, val |-> FALSE]
    ELSE IF gate.type = "INPUT" THEN [done |-> TRUE, val |-> gate.output]
    ELSE LET slots == [i \in 1..Len(gate.inputs) |-> SlotValue(gate, i - 1, gs, ws, fuel)]
         IN  IF \E i \in 1..Len(slots) : ~slots[i].done
             THEN [done |-> FALSE, val |-> FALSE]
             ELSE [done |-> TRUE,
                   val  |-> GateFunction(gate.type, [i \in 1..Len(slots) |-> slots[i].val])]

calculateGateOutput(gate, gs, ws) == Calc(gate, gs, ws, Len(gs) + 1)

\* Variant: the computed value is stored negated.
updateCircuitInverting(prevGates, gs, ws) ==
    [i \in 1..Len(prevGates) |->
        [prevGates[i] EXCEPT !.output = ~calculateGateOutput(prevGates[i], gs, ws).val]]

\* updateCircuit: prevGates.map(gate => ({...gate, output: calculateGateOutput(gate)}))
updateCircuit(prevGates, gs, ws) ==
    [i \in 1..Len(prevGates) |->
        [prevGates[i] EXCEPT !.output = calculateGateOutput(prevGates[i], gs, ws).val]]

\* Every call updateCircuit makes returns.
Returns(prevGates, gs, ws) ==
    \A i \in 1..Len(prevGates) : calculateGateOutput(prevGates[i], gs, ws).done

\* Variant: the outputs of all gates are joined, not only the INPUT gates'.
InputsKeyAllGates(gs) == [i \in 1..Len(gs) |-> BoolStr(gs[i].output)]

\* Second dependency of the effect:
\* gates.filter(g => g.type === 'INPUT').map(g => g.output).join(',')
\* modelled as the sequence of the joined parts.
InputsKey(gs) ==
    LET ins == SelectSeq(gs, LAMBDA g : g.type = "INPUT")
    IN  [i \in 1..Len(ins) |-> BoolStr(ins[i].output)]

\* The gates that rendering the queued updates gives.  React keeps the
\* queued updates of `gates` in order and, when it renders them, applies
\* them one after the other, starting from the gates of the last render
\* that left nothing queued.  An update is either a replacement
\* (setGates(value)) or the map of updateCircuit, so what the queue gives is
\* known as soon as an update joins it.
Latest == IF queued = <<>> THEN gates ELSE queued[1]

\* The updates left queued when a discrete event's render commits.  set is
\* <<>> when the handler did not call setGates and <<value>> when it called
\* setGates(value).  The render applies the handler's update and skips the
\* updates queued before it; the handler's update then stays in the queue
\* behind them, so that the later render repeats it on top of them.
Rebased(set) == IF set = <<>> \/ queued = <<>> THEN queued ELSE set

(* ------------------------------ state ---------------------------------- *)

Init ==
    /\ gates = <<>>
    /\ wires = <<>>
    /\ selectedGate = null
    /\ connectingFrom = null
    /\ dragOffset = [x |-> 0, y |-> 0]
    /\ now = 1
    /\ crashed = FALSE
    /\ last = "init"
    /\ effectRuns = 0
    /\ queued = <<>>
    /\ effectDue = TRUE
    /\ script = 0

\* Date.now() advances.
Tick ==
    /\ ~crashed
    /\ now' = now + 1
    /\ UNCHANGED <<gates, wires, selectedGate, connectingFrom, dragOffset,
                   crashed, last, effectRuns, queued, effectDue>>

\* `inputs` of a new gate (line 37)
NewInputs(type) ==
    IF type = "NOT" \/ type = "INPUT" THEN <<null>>
    ELSE IF type = "OUTPUT" THEN <<null>> ELSE <<null, null>>

\* `label` of a new gate (line 39)
NewLabel(type) ==
    IF type = "INPUT" THEN "IN" ELSE IF type = "OUTPUT" THEN "OUT" ELSE "undefined"

\* newGate of addGate; ox, oy are the values of Math.random() * 200.
NewGate(type, ox, oy) ==
    [id |-> GateId(now), type |-> type, x |-> BaseX + ox, y |-> BaseY + oy,
     inputs |-> NewInputs(type), output |-> FALSE, label |-> NewLabel(type)]

\* The gates the queue q gives on top of the rendered gates gs.
OnTop(q, gs) == IF q = <<>> THEN gs ELSE q[1]

\* The render and commit of a discrete event whose handler called
\* setGates(set[1]) (set = <<>>: it did not call setGates) and left the wires
\* ws (wiresSet: it called setWires, with a new array).  An effect that is
\* still due runs first, before the render: its updateCircuit, which reads
\* the gates and wires of the render that scheduled it, queues its map
\* behind the handler's update.  After the commit the effect runs, before
\* the handler returns, if its dependencies [wires, inputs key] differ from
\* those of the previous commit; updateCircuit then queues its map, whose
\* calculateGateOutput reads the gates and wires of this render.
Render(set, ws, wiresSet) ==
    LET gs    == IF set = <<>> THEN gates ELSE set[1]
        q0    == Rebased(set)
        prev0 == OnTop(q0, gs)
        q1    == IF effectDue /\ Returns(prev0, gates, wires)
                 THEN <<updateCircuit(prev0, gates, wires)>>
                 ELSE q0
        prev1 == OnTop(q1, gs)
        fire  == wiresSet \/ InputsKey(gs) # InputsKey(gates)
    IN  /\ gates' = gs
        /\ wires' = ws
        /\ effectDue' = FALSE
        /\ effectRuns' = (IF effectDue THEN 1 ELSE 0) + (IF fire THEN 1 ELSE 0)
        /\ crashed' = \/ effectDue /\ ~Returns(prev0, gates, wires)
                      \/ fire /\ ~Returns(prev1, gs, ws)
        /\ queued' = IF fire /\ Returns(prev1, gs, ws)
                     THEN <<updateCircuit(prev1, gs, ws)>>
                     ELSE q1

\* A handler that sets no state, or sets a state to the value it has while
\* no update is queued: nothing is rendered.
NoRender ==
    /\ effectRuns' = 0
    /\ UNCHANGED <<gates, wires, queued, effectDue, crashed>>

\* The scheduler's task that runs the effect that is due: updateCircuit
\* queues its map, which reads the gates and wires of the last render.
RunEffect ==
    /\ ~crashed
    /\ effectDue
    /\ effectDue' = FALSE
    /\ effectRuns' = effectRuns + 1
    /\ crashed' = ~Returns(Latest, gates, wires)
    /\ queued' = IF Returns(Latest, gates, wires)
                 THEN <<updateCircuit(Latest, gates, wires)>>
                 ELSE queued
    /\ UNCHANGED <<gates, wires, selectedGate, connectingFrom, dragOffset, now, last>>

\* The scheduler's task that renders the queued updates of `gates` (an
\* effect that is due runs before any render).  The effect of this render is
\* due if the render changed its dependencies.
Flush ==
    /\ ~crashed
    /\ ~effectDue
    /\ queued # <<>>
    /\ gates' = queued[1]
    /\ queued' = <<>>
    /\ effectDue' = (InputsKey(queued[1]) # InputsKey(gates))
    /\ UNCHANGED <<wires, selectedGate, connectingFrom, dragOffset, now, last,
                   effectRuns, crashed>>

addGate(type, ox, oy) ==
    /\ ~crashed
    /\ Render(<<Append(gates, NewGate(type, ox, oy))>>, wires, FALSE)
    /\ last' = "addGate"
    /\ UNCHANGED <<selectedGate, connectingFrom, dragOffset, now>>

\* The hit test of handleCanvasMouseDown (lines 200-207).
Hit(gate, px, py) ==
    IF gate.type = "INPUT" \/ gate.type = "OUTPUT"
    THEN LET dx == px - (gate.x + CircleC)
             dy == py - (gate.y + CircleC)
         IN  dx * dx + dy * dy <= CircleR * CircleR
    ELSE px >= gate.x /\ px <= gate.x + BoxW /\ py >= gate.y /\ py <= gate.y + BoxH

\* px, py: the pointer position relative to the canvas.
handleCanvasMouseDown(px, py) ==
    /\ ~crashed
    /\ LET c == FindIdx(gates, LAMBDA g : Hit(g, px, py))
       IN  IF c # 0
           THEN /\ selectedGate' = gates[c].id
                /\ dragOffset' = [x |-> px - gates[c].x, y |-> py - gates[c].y]
                /\ last' = "select"
                /\ Render(<<>>, wires, FALSE)
           ELSE /\ selectedGate' = null
                /\ last' = "deselect"
                /\ UNCHANGED dragOffset
                /\ IF selectedGate = null /\ queued = <<>>
                   THEN NoRender
                   ELSE Render(<<>>, wires, FALSE)
    /\ UNCHANGED <<connectingFrom, now>>

\* gates.map of handleCanvasMouseMove (lines 224-228)
Moved(gs, px, py) ==
    [i \in 1..Len(gs) |->
        IF gs[i].id = selectedGate
        THEN [gs[i] EXCEPT !.x = px - dragOffset.x, !.y = py - dragOffset.y]
        ELSE gs[i]]

\* A continuous event: its setGates is queued and rendered by a later task.
handleCanvasMouseMove(px, py) ==
    /\ ~crashed
    /\ selectedGate # null
    /\ queued' = <<Moved(gates, px, py)>>
    /\ effectRuns' = 0
    /\ last' = "move"
    /\ UNCHANGED <<gates, wires, selectedGate, connectingFrom, dragOffset, now,
                   crashed, effectDue>>

\* gates.map of toggleInput(gateId)
Toggled(gs, gateId) ==
    [i \in 1..Len(gs) |->
        IF gs[i].id = gateId /\ gs[i].type = "INPUT"
        THEN [gs[i] EXCEPT !.output = ~gs[i].output]
        ELSE gs[i]]

\* The 'Toggle Input' button (lines 309-313) is rendered for a selected gate
\* whose first match in gates is an INPUT gate; it calls toggleInput(selectedGate).
toggleInput ==
    /\ ~crashed
    /\ selectedGate # null
    /\ LET s == FindIdx(gates, LAMBDA g : g.id = selectedGate)
       IN  s # 0 /\ gates[s].type = "INPUT"
    /\ Render(<<Toggled(gates, selectedGate)>>, wires, FALSE)
    /\ last' = "toggle"
    /\ UNCHANGED <<selectedGate, connectingFrom, dragOffset, now>>

startConnection ==
    /\ ~crashed
    /\ selectedGate # null
    /\ LET s == FindIdx(gates, LAMBDA g : g.id = selectedGate)
       IN  IF s = 0 \/ gates[s].type = "OUTPUT"
           THEN /\ last' = "startRefused"
                /\ UNCHANGED connectingFrom
                /\ NoRender
           ELSE /\ connectingFrom' = [gateId |-> selectedGate]
                /\ last' = "start"
                /\ Render(<<>>, wires, FALSE)
    /\ UNCHANGED <<selectedGate, dragOffset, now>>

\* Variant: the first slot is taken whether or not a wire ends on it.
AvailableInputIndexFirstSlot(toGate, ws) == 0

\* Variant: occupancy is looked up by the wires' source gate.
AvailableInputIndexBySource(toGate, ws) ==
    FindIdx(toGate.inputs,
            LAMBDA input :
                ~\E k \in 1..Len(ws) :
                    /\ ws[k].from.gateId = toGate.id
                    /\ ws[k].to.inputIndex = IndexOf(toGate.inputs, input)) - 1

\* availableInputIndex of completeConnection (lines 258-260), 0-based, -1 if none.
AvailableInputIndex(toGate, ws) ==
    FindIdx(toGate.inputs,
            LAMBDA input :
                ~\E k \in 1..Len(ws) :
                    /\ ws[k].to.gateId = toGate.id
                    /\ ws[k].to.inputIndex = IndexOf(toGate.inputs, input)) - 1

\* newWire of completeConnection
NewWire(fromId, toId, idx) ==
    [id |-> WireId(now),
     from |-> [gateId |-> fromId, output |-> TRUE],
     to |-> [gateId |-> toId, inputIndex |-> idx]]

completeConnection ==
    /\ ~crashed
    /\ connectingFrom # null /\ selectedGate # null
    /\ LET t == FindIdx(gates, LAMBDA g : g.id = selectedGate)
       IN  IF t = 0 \/ gates[t].type = "INPUT"
           THEN /\ Render(<<>>, wires, FALSE)
                /\ last' = "connectRefusedInput"
           ELSE LET a == AvailableInputIndex(gates[t], wires)
                IN  IF a = -1
                    THEN /\ Render(<<>>, wires, FALSE)
                         /\ last' = "connectRefusedFull"
                    ELSE /\ Render(<<>>,
                                   Append(wires, NewWire(connectingFrom.gateId, selectedGate, a)),
                                   TRUE)
                         /\ last' = "connected"
    /\ connectingFrom' = null
    /\ UNCHANGED <<selectedGate, dragOffset, now>>

deleteSelected ==
    /\ ~crashed
    /\ selectedGate # null
    /\ Render(<<SelectSeq(gates, LAMBDA g : g.id # selectedGate)>>,
              SelectSeq(wires, LAMBDA w : w.from.gateId # selectedGate
                                          /\ w.to.gateId # selectedGate),
              TRUE)
    /\ selectedGate' = null
    /\ last' = "delete"
    /\ UNCHANGED <<connectingFrom, dragOffset, now>>

clearCircuit ==
    /\ ~crashed
    /\ Render(<< <<>> >>, <<>>, TRUE)
    /\ selectedGate' = null
    /\ connectingFrom' = null
    /\ last' = "clear"
    /\ UNCHANGED <<dragOffset, now>>

Next ==
    \/ now < MaxClock /\ Tick /\ UNCHANGED script
    \/ /\ Len(gates) < MaxGates
       /\ \E type \in GateTypes, ox \in RandomOffsets : addGate(type, ox, 0)
       /\ UNCHANGED script
    \/ (\E p \in ClickPoints : handleCanvasMouseDown(p.x, p.y)) /\ UNCHANGED script
    \/ (\E p \in GatePoints : handleCanvasMouseMove(p.x, p.y)) /\ UNCHANGED script
    \/ toggleInput /\ UNCHANGED script
    \/ startConnection /\ UNCHANGED script
    \/ completeConnection /\ Len(wires') <= MaxWires /\ UNCHANGED script
    \/ deleteSelected /\ UNCHANGED script
    \/ clearCircuit /\ UNCHANGED script
    \/ RunEffect /\ effectRuns' <= MaxEffectRuns /\ UNCHANGED script
    \/ Flush /\ UNCHANGED script

Spec == Init /\ [][Next]_vars

(* ------------------------ scripted scenario 1 -------------------------- *)
(* The user creates INPUT A, INPUT B and AND gate C (at distinct clock     *)
(* readings, anywhere on the canvas), connects A to C, connects B to C,    *)
(* toggles A, then toggles B.  Every step is the handler above; the        *)
(* scheduler's task runs between the events or after them.                 *)

\* Pressing the pointer on the k-th gate.
ClickOn(k) ==
    \E p \in PointsAt(Offsets(ScenarioSpots)) :
        /\ handleCanvasMouseDown(p.x, p.y)
        /\ selectedGate' = gates[k].id

ScriptTick == now < ScenarioClock /\ Tick /\ UNCHANGED script
ScriptAdd ==
    /\ script \in 0..2
    /\ \A i \in 1..Len(gates) : gates[i].id # GateId(now)
    /\ \E ox \in Offsets(ScenarioSpots) :
           addGate(IF script = 2 THEN "AND" ELSE "INPUT", ox, 0)
    /\ script' = script + 1
ScriptSelectSource ==
    /\ script \in {3, 7}
    /\ ClickOn(IF script = 3 THEN 1 ELSE 2)
    /\ script' = script + 1
ScriptStart ==
    /\ script \in {4, 8}
    /\ startConnection
    /\ script' = script + 1
ScriptSelectC ==
    /\ script \in {5, 9}
    /\ ClickOn(3)
    /\ script' = script + 1
ScriptComplete ==
    /\ script \in {6, 10}
    /\ completeConnection
    /\ script' = script + 1
ScriptSelectInput ==
    /\ script \in {11, 13}
    /\ ClickOn(IF script = 11 THEN 1 ELSE 2)
    /\ script' = script + 1
ScriptToggle ==
    /\ script \in {12, 14}
    /\ toggleInput
    /\ script' = script + 1

ScriptEffect == RunEffect /\ UNCHANGED script
ScriptFlush == Flush /\ UNCHANGED script

Scenario1Next ==
    \/ ScriptTick
    \/ ScriptEffect
    \/ ScriptFlush
    \/ ScriptAdd
    \/ ScriptSelectSource
    \/ ScriptStart
    \/ ScriptSelectC
    \/ ScriptComplete
    \/ ScriptSelectInput
    \/ ScriptToggle

Scenario1Spec == Init /\ [][Scenario1Next]_vars

(* ======================= properties of the model ======================= *)

\* The value the evaluator computes for the i-th gate in the current state.
Evaluated(i) == calculateGateOutput(gates[i], gates, wires)

GateIds == {gates[i].id : i \in 1..Len(gates)}

\* Every gate's stored output is the evaluator's value for it.
AllFresh == \A i \in 1..Len(gates) : gates[i].output = Evaluated(i).val

\* C1: after an action that changes the wire set, adds or removes a gate, or
\* toggles an INPUT gate, once the re-evaluation it triggers has run and
\* nothing is left to render, the stored output of every gate equals the
\* value the evaluator computes for it.
FullGraphRefresh ==
    (/\ last \in {"addGate", "connected", "delete", "clear", "toggle"}
     /\ queued = <<>> /\ ~effectDue)
        => AllFresh

\* The wire graph over gate ids: an edge from a wire's source to its destination.
Edges == {<<wires[k].from.gateId, wires[k].to.gateId>> : k \in 1..Len(wires)}

RECURSIVE ReachIn(_, _)
\* The ids reachable from the ids in S by at least one and at most n edges.
ReachIn(S, n) ==
    IF n = 0 THEN {}
    ELSE LET step == {e[2] : e \in {d \in Edges : d[1] \in S}}
         IN  step \cup ReachIn(step, n - 1)

HasCycle == \E e \in Edges : e[1] \in ReachIn({e[1]}, Len(wires))

\* The reference definition of a gate's output: an INPUT gate yields its
\* stored value; a slot with a terminating wire whose source gate exists
\* takes that gate's output and any other slot reads false.
RECURSIVE RefOutput(_)
RefSlot(gate, idx) ==
    LET w == FindIdx(wires, LAMBDA x : x.to.gateId = gate.id /\ x.to.inputIndex = idx)
    IN  IF w = 0 THEN FALSE
        ELSE LET src == FindIdx(gates, LAMBDA g : g.id = wires[w].from.gateId)
             IN  IF src = 0 THEN FALSE ELSE RefOutput(gates[src])

RefOutput(gate) ==
    CASE gate.type = "INPUT"  -> gate.output
      [] gate.type = "AND"    -> RefSlot(gate, 0) /\ RefSlot(gate, 1)
      [] gate.type = "OR"     -> RefSlot(gate, 0) \/ RefSlot(gate, 1)
      [] gate.type = "NOT"    -> ~RefSlot(gate, 0)
      [] gate.type = "OUTPUT" -> RefSlot(gate, 0)

\* C2: on every acyclic graph calculateGateOutput agrees with the recursive
\* reference definition of AND, OR, NOT, OUTPUT and INPUT.
AgreesWithReference ==
    ~HasCycle =>
        \A i \in 1..Len(gates) :
            Evaluated(i).done /\ Evaluated(i).val = RefOutput(gates[i])

\* C3: every wire's source gate id and destination gate id name a gate of
\* the graph.
ReferentialIntegrity ==
    \A k \in 1..Len(wires) :
        wires[k].from.gateId \in GateIds /\ wires[k].to.gateId \in GateIds

\* C4: at most one wire ends on any (destination gate id, slot) pair, and
\* every wire's slot index is a slot of its destination gate.
SingleDriver ==
    /\ \A j, k \in 1..Len(wires) :
           j # k => wires[j].to # wires[k].to
    /\ \A k \in 1..Len(wires) :
           /\ wires[k].to.gateId \in GateIds
           /\ \A i \in 1..Len(gates) :
                  gates[i].id = wires[k].to.gateId =>
                      wires[k].to.inputIndex \in 0..(Len(gates[i].inputs) - 1)

\* A connection was just added and one source gate drives two wires (fan-out).
SingleDriverWitness ==
    /\ last = "connected"
    /\ \E j, k \in 1..Len(wires) :
           /\ j # k
           /\ wires[j].from.gateId = wires[k].from.gateId
           /\ wires[j].to.gateId # wires[k].to.gateId

\* seq without its k-th element
RemoveAt(seq, k) == SubSeq(seq, 1, k - 1) \o SubSeq(seq, k + 1, Len(seq))

\* C5: deleteSelected on gate g (the selected gate) removes g and exactly the
\* wires whose source or destination is g, in one commit; every other gate
\* and every other wire stays, unchanged.
CascadingDelete ==
    [][deleteSelected =>
          LET g == FindIdx(gates, LAMBDA x : x.id = selectedGate)
          IN  /\ g # 0
              /\ gates' = RemoveAt(gates, g)
              /\ wires' = SelectSeq(wires, LAMBDA w : w.from.gateId # gates[g].id
                                                      /\ w.to.gateId # gates[g].id)
              /\ \A k \in 1..Len(wires') :
                     wires'[k].from.gateId # gates[g].id /\ wires'[k].to.gateId # gates[g].id
      ]_vars

\* C6: scenario 1.  With INPUT A, INPUT B and AND gate C, after connecting A
\* to C and B to C the output of C is false; after toggling A it is still
\* false; after then toggling B it is true (once every queued update is
\* rendered).
Scenario1Outputs ==
    queued = <<>> =>
        /\ script \in {11, 13} => ~gates[3].output /\ ~Evaluated(3).val
        /\ script = 15 => gates[3].output /\ Evaluated(3).val

\* C7: when the wiring contains a cycle, the whole-graph evaluation returns
\* with a boolean for every gate (no evaluation overflows the call stack).
CycleSafety ==
    /\ ~crashed
    /\ HasCycle =>
           \A i \in 1..Len(gates) : Evaluated(i).done /\ Evaluated(i).val \in BOOLEAN

\* A connection that closed a loop through two different gates was just
\* added, and the whole-graph evaluation ran on it.
CycleSafetyWitness ==
    /\ last = "connected"
    /\ effectRuns >= 1
    /\ \E e \in Edges : e[1] # e[2] /\ <<e[2], e[1]>> \in Edges

\* Slot idx of gate g has no terminating wire, or its wire's source gate is
\* not in the graph.
OpenSlot(g, idx) ==
    LET w == FindIdx(wires, LAMBDA x : x.to.gateId = g.id /\ x.to.inputIndex = idx)
    IN  w = 0 \/ wires[w].from.gateId \notin GateIds

\* C8: an input slot with no terminating wire, or whose wire's source gate
\* does not exist, reads false; a gate all of whose slots are such evaluates
\* to false if it is AND, OR or OUTPUT, and to true if it is NOT.
UnconnectedReadsFalse ==
    \A i \in 1..Len(gates) :
        gates[i].type # "INPUT" =>
            LET g == gates[i]
                slotsOf == 0..(Len(g.inputs) - 1)
            IN  /\ \A idx \in slotsOf :
                       OpenSlot(g, idx) =>
                           SlotValue(g, idx, gates, wires, Len(gates) + 1)
                               = [done |-> TRUE, val |-> FALSE]
                /\ (\A idx \in slotsOf : OpenSlot(g, idx)) =>
                       Evaluated(i) = [done |-> TRUE, val |-> (g.type = "NOT")]

\* A connection was just made from a deleted gate to a NOT gate: its slot's
\* wire has no source gate, the whole-graph evaluation ran and was rendered,
\* and the NOT gate's stored output is true.
UnconnectedReadsFalseWitness ==
    /\ last = "connected"
    /\ effectRuns >= 1
    /\ queued = <<>>
    /\ \E i \in 1..Len(gates) :
           /\ gates[i].type = "NOT"
           /\ gates[i].output
           /\ \E k \in 1..Len(wires) :
                  wires[k].to.gateId = gates[i].id /\ wires[k].from.gateId \notin GateIds

\* A wire ends on slot idx of the gates named id.
Driven(id, idx) ==
    \E k \in 1..Len(wires) : wires[k].to = [gateId |-> id, inputIndex |-> idx]

\* C9: a connection attempt on a destination gate all of whose slots are
\* driven is rejected and leaves gates and wires as they were, and no
\* accepted connection ends on a (gate, slot) pair that was already driven.
SlotOccupiedRejection ==
    [][completeConnection =>
          LET t == FindIdx(gates, LAMBDA g : g.id = selectedGate)
          IN  /\ (/\ t # 0
                  /\ gates[t].type # "INPUT"
                  /\ \A idx \in 0..(Len(gates[t].inputs) - 1) : Driven(gates[t].id, idx))
                     => wires' = wires /\ gates' = gates
              /\ Len(wires') > Len(wires) =>
                     ~Driven(wires'[Len(wires')].to.gateId, wires'[Len(wires')].to.inputIndex)
      ]_vars

\* A connection to a one-slot gate whose slot is driven was just rejected.
SlotOccupiedRejectionWitness ==
    /\ last = "connectRefusedFull"
    /\ \E i \in 1..Len(gates) :
           /\ gates[i].id = selectedGate
           /\ Len(gates[i].inputs) = 1
           /\ Driven(selectedGate, 0)

\* C10: completeConnection adds no wire, and leaves gates and wires as they
\* were, when the pending source id or the selected destination id names no
\* gate of the graph.
InvalidReferenceRejection ==
    [][(/\ completeConnection
        /\ (connectingFrom.gateId \notin GateIds \/ selectedGate \notin GateIds))
          => wires' = wires /\ gates' = gates
      ]_vars

\* The position in gates of the gate the panel resolves id to
\* (gates.find(g => g.id === id)); 0 when there is none.
Named(id) == FindIdx(gates, LAMBDA g : g.id = id)

\* The stored outputs, gate by gate.
Outputs(gs) == [i \in 1..Len(gs) |-> gs[i].output]

\* C11: toggleInput applied to a gate id that names no INPUT gate (or no gate
\* at all) changes no stored output and leaves the wires as they were;
\* applied to an INPUT gate it flips that gate's stored value and no other
\* INPUT gate's stored value.
ToggleOnlyNamedInput ==
    [][/\ \A id \in GateIds \cup {GateId(0)} :
              (\A i \in 1..Len(gates) : gates[i].id = id => gates[i].type # "INPUT")
                  => /\ Outputs(Toggled(gates, id)) = Outputs(gates)
                     /\ InputsKey(Toggled(gates, id)) = InputsKey(gates)
       /\ toggleInput =>
              /\ wires' = wires
              /\ Len(gates') = Len(gates)
              /\ gates'[Named(selectedGate)].output = ~gates[Named(selectedGate)].output
              /\ \A i \in 1..Len(gates) :
                     (i # Named(selectedGate) /\ gates[i].type = "INPUT")
                         => gates'[i].output = gates[i].output
      ]_vars

\* C12: running the whole-graph evaluation twice in a row, with nothing
\* changed in between, gives every gate the same output both times.
EvaluationIdempotent ==
    LET once  == updateCircuit(gates, gates, wires)
        twice == updateCircuit(once, once, wires)
    IN  /\ Returns(gates, gates, wires)
        /\ Returns(once, once, wires)
        /\ twice = once

\* The whole-graph evaluation just ran, and was rendered, on a graph with a
\* wire, an INPUT gate storing true and another gate whose output is true.
EvaluationIdempotentWitness ==
    /\ last = "connected"
    /\ effectRuns >= 1
    /\ queued = <<>>
    /\ \E i, j \in 1..Len(gates) :
           /\ gates[i].type = "INPUT" /\ gates[i].output
           /\ gates[j].type # "INPUT" /\ gates[j].output

\* C13: no two gates of the graph have the same id.
UniqueGateIds ==
    \A i, j \in 1..Len(gates) : i # j => gates[i].id # gates[j].id

\* C14: no wire's destination is an INPUT gate, and no wire's source is an
\* OUTPUT gate.
WireEndpointKinds ==
    \A k \in 1..Len(wires) :
        /\ Named(wires[k].to.gateId) # 0
               => gates[Named(wires[k].to.gateId)].type # "INPUT"
        /\ Named(wires[k].from.gateId) # 0
               => gates[Named(wires[k].from.gateId)].type # "OUTPUT"

\* C15: moving a gate changes only the x and y of the selected gate: the
\* move leaves the committed gates and the wires as they are, and the gates
\* it queues for rendering are the committed ones with every gate's id, kind,
\* slots and stored output, every other gate's position and every gate's
\* evaluated output as they were.
MoveChangesOnlyPosition ==
    [][(\E p \in GatePoints : handleCanvasMouseMove(p.x, p.y)) =>
          LET s == Named(selectedGate)
              moved == queued'[1]
          IN  /\ wires' = wires
              /\ gates' = gates
              /\ Len(moved) = Len(gates)
              /\ \A i \in 1..Len(gates) :
                     /\ i # s => moved[i] = gates[i]
                     /\ moved[i] = [gates[i] EXCEPT !.x = moved[i].x, !.y = moved[i].y]
                     /\ calculateGateOutput(moved[i], moved, wires') = Evaluated(i)
      ]_vars

\* The gates of this state that are still in the graph after the step.
Remaining ==
    IF deleteSelected THEN SelectSeq(gates, LAMBDA g : g.id # selectedGate)
    ELSE IF clearCircuit THEN <<>>
    ELSE gates

\* C16: the stored value of an INPUT gate that stays in the graph changes
\* only in a toggleInput step on that gate (no other handler and no render
\* of queued updates changes it); the whole-graph evaluation leaves every
\* INPUT gate's stored value as it was.
InputValueOnlyToggled ==
    [][/\ \A i \in 1..Len(gates) :
              gates[i].type = "INPUT"
                  => updateCircuit(gates, gates, wires)[i].output = gates[i].output
       /\ \A i \in 1..Len(Remaining) :
              (Remaining[i].type = "INPUT" /\ gates'[i].output # Remaining[i].output)
                  => toggleInput /\ i = Named(selectedGate)
      ]_vars

\* C17: with an existing pending source and a non-INPUT destination,
\* completeConnection rejects only when every slot of the destination has a
\* terminating wire; otherwise it adds a wire to the lowest-indexed slot
\* without one.
SlotAllocation ==
    [][(/\ completeConnection
        /\ connectingFrom.gateId \in GateIds
        /\ Named(selectedGate) # 0
        /\ gates[Named(selectedGate)].type # "INPUT")
          => LET t == gates[Named(selectedGate)]
                 free == {idx \in 0..(Len(t.inputs) - 1) : ~Driven(t.id, idx)}
             IN  IF free = {}
                 THEN wires' = wires
                 ELSE /\ Len(wires') = Len(wires) + 1
                      /\ SubSeq(wires', 1, Len(wires)) = wires
                      /\ wires'[Len(wires')].from.gateId = connectingFrom.gateId
                      /\ wires'[Len(wires')].to = [gateId |-> t.id, inputIndex |-> Min(free)]
      ]_vars

\* C18: the gate update written by updateCircuit leaves the effect's
\* dependencies as they were: rendering the queued updates never makes the
\* effect due again (the only effect ever left due is the first render's),
\* an event runs the effect at most once besides the one that was due, and
\* the render of the queued updates leaves no re-evaluation pending.
RefreshQuiescence ==
    /\ effectRuns <= 2
    /\ Returns(gates, gates, wires)
    /\ InputsKey(updateCircuit(gates, gates, wires)) = InputsKey(gates)
    /\ InputsKey(Latest) = InputsKey(gates)
    /\ effectDue => gates = <<>> /\ wires = <<>> /\ queued = <<>> /\ effectRuns = 0

\* The effect ran once, after a toggle or a new connection, its update was
\* rendered and stored true on a gate that is not an INPUT gate, and nothing
\* is queued or due any more.
RefreshQuiescenceWitness ==
    /\ last \in {"toggle", "connected"}
    /\ effectRuns = 1
    /\ queued = <<>>
    /\ ~effectDue
    /\ \E i, j \in 1..Len(gates) :
           /\ gates[i].type = "INPUT"
           /\ gates[j].type # "INPUT" /\ gates[j].output

====
